---------------------------- MODULE Spec2Model ----------------------------
(***************************************************************************)
(* Postal Inspection Service: the poll cycle of internal/poller, the IMAP  *)
(* operations of internal/imap it calls, the policy store of internal/db   *)
(* and the subject classifier of internal/classifier.                      *)
(***************************************************************************)
EXTENDS Integers, Sequences, FiniteSets, TLC

(***************************************************************************)
(* Bounds of the model.                                                    *)
(***************************************************************************)
MaxCycles == 2      \* poll cycles started in one run
MaxFailures == 1    \* remote calls (IMAP or SQLite) that fail in one run
MaxFailuresIdle == 2 \* the same, in runs whose mailbox changes between cycles only
MaxArrivals == 2    \* messages that appear in the mailbox in one run
MaxEvals == 2       \* calls of Classify in one run of the classifier alone
MaxCyclesTicks == 3  \* poll cycles started in one run of the scheduler without failing calls
MaxRequests == 2    \* requests the dashboard handles in one run
MaxFlags == 1       \* messages that carry a \Deleted flag set by another client at once
MaxTicks == 2       \* ticks counted during one poll cycle (further ticks are not counted)

(***************************************************************************)
(* Strings: strings.ToLower and strings.Contains of the Go library.        *)
(***************************************************************************)
UpperLetters == "ABCDEFGHIJKLMNOPQRSTUVWXYZ"
LowerLetters == "abcdefghijklmnopqrstuvwxyz"

CharAt(s, i) == SubSeq(s, i, i)

LowerChar(c) ==
    IF \E k \in 1..Len(UpperLetters) : CharAt(UpperLetters, k) = c
    THEN CharAt(LowerLetters, CHOOSE k \in 1..Len(UpperLetters) : CharAt(UpperLetters, k) = c)
    ELSE c

RECURSIVE ToLower(_)
ToLower(s) ==
    IF Len(s) = 0 THEN ""
    ELSE LowerChar(CharAt(s, 1)) \o ToLower(SubSeq(s, 2, Len(s)))

Contains(s, substr) ==
    \E i \in 1..(Len(s) - Len(substr) + 1) : SubSeq(s, i, i + Len(substr) - 1) = substr


(***************************************************************************)
(* internal/config: Load's POLL_INTERVAL.  A time.Duration is a count of   *)
(* nanoseconds; it is held here as whole seconds and the nanoseconds       *)
(* beyond them, both of the sign of the duration.                          *)
(***************************************************************************)
Second == 1000000000
Duration(sec, nsec) == [sec |-> sec, nsec |-> nsec]
Minute == Duration(60, 0)
Positive(d) == d.sec > 0 \/ (d.sec = 0 /\ d.nsec > 0)

\* time.ParseDuration's unitMap; its two spellings of the microsecond with a
\* Greek letter are left out.
unitMap ==
    ("ns" :> Duration(0, 1)) @@ ("us" :> Duration(0, 1000)) @@
    ("ms" :> Duration(0, 1000000)) @@ ("s" :> Duration(1, 0)) @@
    ("m" :> Duration(60, 0)) @@ ("h" :> Duration(3600, 0))

DecimalDigits == "0123456789"
IsDigit(c) == \E k \in 1..10 : CharAt(DecimalDigits, k) = c
DigitOf(c) == (CHOOSE k \in 1..10 : CharAt(DecimalDigits, k) = c) - 1
Rest(s, n) == SubSeq(s, n + 1, Len(s))

\* The number of leading digits of s, and their value (leadingInt,
\* leadingFraction).
RECURSIVE DigitsLen(_)
DigitsLen(s) == IF Len(s) > 0 /\ IsDigit(CharAt(s, 1)) THEN 1 + DigitsLen(Rest(s, 1)) ELSE 0

RECURSIVE IntOf(_)
IntOf(s) ==
    IF Len(s) = 0 THEN 0
    ELSE 10 * IntOf(SubSeq(s, 1, Len(s) - 1)) + DigitOf(CharAt(s, Len(s)))

RECURSIVE Pow10(_)
Pow10(n) == IF n = 0 THEN 1 ELSE 10 * Pow10(n - 1)

\* The length of the unit: the characters up to the next '.' or digit.
RECURSIVE UnitLen(_)
UnitLen(s) ==
    IF Len(s) > 0 /\ CharAt(s, 1) # "." /\ ~IsDigit(CharAt(s, 1))
    THEN 1 + UnitLen(Rest(s, 1)) ELSE 0

Normal(sec, nsec) == Duration(sec + (nsec \div Second), nsec % Second)
Plus(d, e) == Normal(d.sec + e.sec, d.nsec + e.nsec)
Negate(d) == Duration(0 - d.sec, 0 - d.nsec)

\* v units and f/scale of a unit more.
Group(v, f, scale, unit) ==
    IF unit.sec > 0
    THEN Normal(v * unit.sec + ((f * unit.sec) \div scale),
                ((f * unit.sec) % scale) * (Second \div scale))
    ELSE Normal(0, v * unit.nsec + ((f * unit.nsec) \div scale))

InvalidDuration == [err |-> TRUE, d |-> Duration(0, 0)]

\* The loop of time.ParseDuration over the groups number-unit of s.
RECURSIVE ParseGroups(_, _)
ParseGroups(s, d) ==
    IF s = "" THEN [err |-> FALSE, d |-> d]
    ELSE LET pre == DigitsLen(s)
             s1 == Rest(s, pre)
             dot == Len(s1) > 0 /\ CharAt(s1, 1) = "."
             s2 == IF dot THEN Rest(s1, 1) ELSE s1
             post == IF dot THEN DigitsLen(s2) ELSE 0
             s3 == Rest(s2, post)
             u == UnitLen(s3)
             unit == SubSeq(s3, 1, u)
         IN  IF ~(CharAt(s, 1) = "." \/ IsDigit(CharAt(s, 1))) THEN InvalidDuration
             ELSE IF pre = 0 /\ post = 0 THEN InvalidDuration
             ELSE IF u = 0 THEN InvalidDuration
             ELSE IF unit \notin DOMAIN unitMap THEN InvalidDuration
             ELSE ParseGroups(Rest(s3, u),
                              Plus(d, Group(IntOf(SubSeq(s, 1, pre)),
                                            IntOf(SubSeq(s2, 1, post)),
                                            Pow10(post), unitMap[unit])))

\* time.ParseDuration: a sign, then "0" or groups number-unit.
ParseDuration(s) ==
    LET signed == Len(s) > 0 /\ CharAt(s, 1) \in { "-", "+" }
        neg == signed /\ CharAt(s, 1) = "-"
        body == IF signed THEN Rest(s, 1) ELSE s
    IN  IF body = "0" THEN [err |-> FALSE, d |-> Duration(0, 0)]
        ELSE IF body = "" THEN InvalidDuration
        ELSE LET r == ParseGroups(body, Duration(0, 0))
             IN  IF r.err THEN r
                 ELSE [err |-> FALSE, d |-> IF neg THEN Negate(r.d) ELSE r.d]

\* config.Load: the default of one minute, replaced by the parsed setting when
\* the setting is not empty and parses.
Load(setting) ==
    [POLL_INTERVAL |-> setting,
     PollInterval |-> IF setting # "" /\ ~ParseDuration(setting).err
                      THEN ParseDuration(setting).d ELSE Minute]

\* The values of POLL_INTERVAL: unset, intervals in one or two groups, with a
\* fraction, with a sign, zero, and strings that are no duration.
Settings ==
    { "", "1m", "30s", "1m30s", "1.5s", "+5s", "0", "0s", "-1m", "5", "abc" }

Loaded == [setting \in Settings |-> Load(setting)]

(***************************************************************************)
(* internal/classifier: Classify.  Both rule tables are Go maps, and a     *)
(* range over a map visits its keys in an unspecified order: the result is *)
(* the rule of any matching key of the first table that has a match.       *)
(***************************************************************************)
transactionalPatterns ==
    { <<"order confirm", "Order confirmation">>,
      <<"your order", "Order notification">>,
      <<"shipped", "Shipping notification">>,
      <<"delivery", "Delivery update">>,
      <<"tracking", "Tracking update">>,
      <<"receipt", "Receipt">>,
      <<"invoice", "Invoice">>,
      <<"payment", "Payment notification">>,
      <<"password reset", "Security/Account">>,
      <<"verification", "Account verification">>,
      <<"booking confirm", "Booking confirmation">>,
      <<"reservation", "Reservation">>,
      <<"refund", "Refund notification">>,
      <<"return", "Return notification">>,
      <<"appointment", "Appointment">>,
      <<"itinerary", "Travel itinerary">>,
      <<"subscription confirm", "Subscription confirmation">> }

marketingPatterns ==
    { <<"% off", "Discount promotion">>,
      <<"sale", "Sale promotion">>,
      <<"deal", "Deal promotion">>,
      <<"newsletter", "Newsletter">>,
      <<"don't miss", "Marketing urgency">>,
      <<"last chance", "Marketing urgency">>,
      <<"shop now", "Marketing CTA">>,
      <<"new arrivals", "Product marketing">>,
      <<"we miss you", "Re-engagement">>,
      <<"recommended", "Recommendation marketing">> }

\* A default Classification worded otherwise.
UnclassifiedReason == "unclassified, defaulted to marketing"

DefaultReason == "Unknown/Default to marketing"

Matches(patterns, lower) == { p \in patterns : Contains(lower, p[1]) }

\* A classifier that keeps what it cannot classify.
DefaultKeeps == [IsTransactional |-> TRUE, Reason |-> DefaultReason]

\* The Classification returned when no pattern of either table matches.
DefaultClassification == [IsTransactional |-> FALSE, Reason |-> DefaultReason]

\* A classifier that looks at the marketing rules first.
ClassifyMarketingFirst(subject) ==
    LET lower == ToLower(subject)
        t == Matches(transactionalPatterns, lower)
        m == Matches(marketingPatterns, lower)
    IN  IF m # {} THEN { [IsTransactional |-> FALSE, Reason |-> p[2]] : p \in m }
        ELSE IF t # {} THEN { [IsTransactional |-> TRUE, Reason |-> p[2]] : p \in t }
        ELSE { DefaultClassification }

\* The set of Classification values a call Classify(subject) can return.
Classify(subject) ==
    LET lower == ToLower(subject)
        t == Matches(transactionalPatterns, lower)
        m == Matches(marketingPatterns, lower)
    IN  IF t # {} THEN { [IsTransactional |-> TRUE, Reason |-> p[2]] : p \in t }
        ELSE IF m # {} THEN { [IsTransactional |-> FALSE, Reason |-> p[2]] : p \in m }
        ELSE { DefaultClassification }

\* internal/classifier: IsTransactional.  Its two keyword lists are slices,
\* looked at in order; the answer depends only on whether some keyword of
\* the first list occurs in the lower-cased subject.
transactionalKeywords ==
    { "order confirm", "your order", "order #", "order number", "order placed",
      "order received", "order status", "order update",
      "shipped", "shipping confirm", "shipping update", "delivery confirm",
      "delivery update", "out for delivery", "delivered", "tracking",
      "in transit", "package", "shipment",
      "receipt", "invoice", "payment confirm", "payment received",
      "transaction", "purchase confirm",
      "password reset", "verify your", "verification", "security alert",
      "login attempt", "account confirm", "subscription confirm",
      "booking confirm", "reservation confirm", "itinerary", "appointment",
      "ticket",
      "refund", "return confirm", "return label", "exchange" }

marketingKeywords ==
    { "% off", "sale", "deal", "discount", "save $", "save up to",
      "limited time", "flash sale", "clearance", "black friday",
      "cyber monday", "holiday", "special offer", "exclusive offer", "promo",
      "coupon",
      "newsletter", "weekly", "monthly", "digest", "roundup", "what's new",
      "new arrivals", "just dropped", "trending", "top picks",
      "recommended for you", "you might like", "based on your",
      "don't miss", "last chance", "ending soon", "act now", "hurry",
      "only hours left", "reminder:", "we miss you", "come back",
      "shop now", "buy now", "free shipping", "new collection", "introducing",
      "check out", "discover", "explore" }

IsTransactional(subject) ==
    LET lower == ToLower(subject)
    IN  IF \E keyword \in transactionalKeywords : Contains(lower, keyword) THEN TRUE
        ELSE IF \E keyword \in marketingKeywords : Contains(lower, keyword) THEN FALSE
        ELSE FALSE

\* The subjects Classify is called with when it is checked on its own: with
\* keywords of both tables, of one table (one or two of them), of none, the
\* empty subject, and subjects that differ in letter case only.
Subjects ==
    { "Order Confirmation - 20% off your next order",
      "ORDER CONFIRMATION - 20% OFF YOUR NEXT ORDER",
      "Flash Sale - 30% off",
      "FLASH SALE - 30% OFF",
      "Your Order #1234 has shipped",
      "Invoice attached",
      "invoice attached",
      "Newsletter",
      "Package deal",
      "Payment due",
      "hello",
      "" }

LowerSubject == [s \in Subjects |-> ToLower(s)]

\* The subject holds a key of the transactional table, of the marketing table.
HasTransactionalKeyword(lower) == Matches(transactionalPatterns, lower) # {}
HasMarketingKeyword(lower) == Matches(marketingPatterns, lower) # {}
SubjectVerdicts == [s \in Subjects |-> Classify(s)]
SubjectTransactional == [s \in Subjects |-> IsTransactional(s)]


(***************************************************************************)
(* The mailbox of the model.  Folder names are compared as they are (the   *)
(* poller never folds their case): "drafts" and "Drafts" are two folders.  *)
(***************************************************************************)
FolderBlock == "USPIS/Block"
FolderTransactionalOnly == "USPIS/Transactional Only"

excludedFolders ==
    { "Orders", "USPIS", "USPIS/Block", "USPIS/Transactional Only",
      "Sent Messages", "Drafts", "Deleted Messages" }

Folders == { FolderBlock, FolderTransactionalOnly, "INBOX", "Drafts", "drafts" }

\* The messages that can appear in the mailbox; a message's UID is its index.
Mail ==
    << [From |-> "Spam@Example.com",    Subject |-> "50% off everything"],
       [From |-> "spam@example.com",    Subject |-> "Your Order #1234 has shipped"],
       [From |-> "newsletter@shop.com", Subject |-> "Flash Sale - 30% off"],
       [From |-> "Newsletter@Shop.com", Subject |-> "Your Order #1234 has shipped"],
       [From |-> "",                    Subject |-> "hello"],
       [From |-> "newsletter@shop.com", Subject |-> ""] >>

Msgs == DOMAIN Mail

\* strings.ToLower(email.From) and Classify(email.Subject) of every message.
SenderOf == [m \in Msgs |-> ToLower(Mail[m].From)]
VerdictsOf == [m \in Msgs |-> Classify(Mail[m].Subject)]

\* strings.ToLower of the addresses a sender table can hold.
LowerOf == [a \in { SenderOf[m] : m \in Msgs } \cup { Mail[m].From : m \in Msgs } |-> ToLower(a)]

\* Action kinds of the action log (internal/db).
ActionBlockedSender == "blocked_sender"
ActionDeletedEmail == "deleted_email"
ActionTransactionalOnlySender == "transactional_only_sender"
ActionDeletedMarketing == "deleted_marketing"
ActionUnblockedSender == "unblocked_sender"
ActionRemovedTransactionalOnly == "removed_transactional_only"

\* Policy kinds: the two sender tables.
KindBlock == "blocked_senders"
KindTransactionalOnly == "transactional_only_senders"

IntakeFolder(kind) == IF kind = KindBlock THEN FolderBlock ELSE FolderTransactionalOnly
IntakeAction(kind) == IF kind = KindBlock THEN ActionBlockedSender ELSE ActionTransactionalOnlySender
IntakeReasonPrefix(kind) ==
    IF kind = KindBlock THEN "Moved to Block folder: " ELSE "Moved to Transactional Only folder: "
IntakeAddedDetails(kind) ==
    IF kind = KindBlock THEN "Blocked via USPIS/Block folder"
    ELSE "Added via USPIS/Transactional Only folder - marketing emails will be deleted"
IntakeDeletedDetails(kind) ==
    IF kind = KindBlock THEN "Deleted from Block folder" ELSE "Deleted from Transactional Only folder"

(***************************************************************************)
(* Helpers.                                                                *)
(***************************************************************************)
Min(S) == CHOOSE x \in S : \A y \in S : x <= y

\* The messages of a folder in sequence-number order (ascending UID).
RECURSIVE Ascending(_)
Ascending(S) == IF S = {} THEN << >> ELSE <<Min(S)>> \o Ascending(S \ {Min(S)})

RECURSIVE Orderings(_)
Orderings(S) ==
    IF S = {} THEN { << >> }
    ELSE UNION { { <<x>> \o p : p \in Orderings(S \ {x}) } : x \in S }

RECURSIVE SubsetsUpTo(_, _)
SubsetsUpTo(P, k) ==
    IF k <= 0 THEN { {} }
    ELSE LET prev == SubsetsUpTo(P, k - 1)
         IN  prev \cup { s \cup {p} : s \in prev, p \in P }

Range(s) == { s[i] : i \in DOMAIN s }

\* A remote call that can fail: the call, and the message or folder it is about.
Call(kind) == [kind |-> kind, msg |-> 0, folder |-> ""]
CallM(kind, m) == [kind |-> kind, msg |-> m, folder |-> ""]
CallF(kind, f) == [kind |-> kind, msg |-> 0, folder |-> f]


(***************************************************************************)
(* internal/db: the two sender tables, email_details and action_log.       *)
(* A sender row is [email, reason, msg, created]; msg names the message    *)
(* the row was created from (the subject in reason is that message's       *)
(* subject; 0: none, the dashboard created it), created is created_at, the *)
(* time of the insertion, counted in poll cycles.                          *)
(***************************************************************************)
Addresses(rows) == { r.email : r \in rows }

\* A check that never finds the address.
NeverUnderPolicy(rows, email) == FALSE

\* SELECT COUNT(*) ... WHERE email = ?  (count > 0)
IsUnderPolicy(rows, email) == \E r \in rows : r.email = email

\* INSERT OR REPLACE: the row of the address is the one of the last call.
ReplaceSender(rows, email, reason, m, now) ==
    { r \in rows : r.email # email }
    \cup { [email |-> email, reason |-> reason, msg |-> m, created |-> now] }

\* A table that holds the last sender only.
OverwriteSenders(rows, email, reason, m, now) ==
    { [email |-> email, reason |-> reason, msg |-> m, created |-> now] }

\* INSERT OR IGNORE on a table whose email column is UNIQUE.
AddSender(rows, email, reason, m, now) ==
    IF \E r \in rows : r.email = email THEN rows
    ELSE rows \cup { [email |-> email, reason |-> reason, msg |-> m, created |-> now] }

LogEntry(action, sender, m, details, folder, reason) ==
    [action |-> action, sender |-> sender, msg |-> m, subject |-> Mail[m].Subject,
     details |-> details, folder |-> folder, reason |-> reason, emailDetailID |-> 0]

\* DB.LogAction: one INSERT into action_log, lost when the call fails.
LogAction(lg, entry, fails) == IF fails THEN lg ELSE Append(lg, entry)

\* Poller.logActionWithEmailDetail: with a snapshot id, LogActionWithEmail and,
\* when that fails, LogAction without the reference; without one, LogAction.
logActionWithEmailDetail(lg, entry, emailDetailID, fails, fallbackFails) ==
    IF emailDetailID > 0
    THEN IF ~fails THEN Append(lg, [entry EXCEPT !.emailDetailID = emailDetailID])
         ELSE LogAction(lg, entry, fallbackFails)
    ELSE LogAction(lg, entry, fails)

\* The calls logActionWithEmailDetail makes: call, and fallback after call failed.
LogCalls(call, fallback, emailDetailID, F) ==
    IF emailDetailID > 0 /\ call \in F THEN { call, fallback } ELSE { call }

(***************************************************************************)
(* Poller.processBlockFolder / processTransactionalOnlyFolder: the loop    *)
(* over the fetched emails.  st = [rows, details, log, uids, failedAdds,   *)
(* made]: failedAdds are the emails whose AddSender call failed, made the  *)
(* calls the loop made; F is the set of calls that fail when made.         *)
(***************************************************************************)
\* A loop that queues a message only when its sender's policy is in place.
QueueOnlyIfAdded(addFailed) == ~addFailed

\* Whether the message is queued for deletion once its policy check returned.
QueueAfterAdd(addFailed) == TRUE

\* A loop that takes the From header as it is.
RawFrom(m) == Mail[m].From

\* senderEmail := strings.ToLower(email.From)
SenderEmail(m) == SenderOf[m]

\* A loop that takes every message, with or without a sender.
SkipsNothing(senderEmail) == FALSE

\* if senderEmail == "" { continue }
SkipsEmail(senderEmail) == senderEmail = ""

\* A loop that leaves a message whose snapshot could not be saved.
StopOnSnapshotError(saved) == saved

\* Whether the loop goes on with the message after saveEmailDetail returned:
\* its error is only printed.
AfterSnapshot(saved) == TRUE

ProcessEmail(kind, m, F, st) ==
    LET senderEmail == SenderEmail(m)
        saved == CallM("SaveEmailDetail", m) \notin F
        details1 == IF saved THEN Append(st.details, m) ELSE st.details
        emailDetailID == IF saved THEN Len(details1) ELSE 0
        made1 == st.made \cup { CallM("SaveEmailDetail", m), CallM("IsUnderPolicy", m) }
        under == IsUnderPolicy(st.rows, senderEmail)
        addFailed == CallM("AddSender", m) \in F
        added == ~under /\ ~addFailed
        rows2 == IF added
                 THEN AddSender(st.rows, senderEmail,
                                IntakeReasonPrefix(kind) \o Mail[m].Subject, m, st.now)
                 ELSE st.rows
        log2 == IF added
                THEN logActionWithEmailDetail(st.log,
                        LogEntry(IntakeAction(kind), senderEmail, m,
                                 IntakeAddedDetails(kind), IntakeFolder(kind), ""),
                        emailDetailID,
                        CallM("LogAdded", m) \in F, CallM("LogAddedFallback", m) \in F)
                ELSE st.log
        queue == QueueAfterAdd(~under /\ addFailed)
        log3 == IF queue
                THEN logActionWithEmailDetail(log2,
                        LogEntry(ActionDeletedEmail, senderEmail, m,
                                 IntakeDeletedDetails(kind), IntakeFolder(kind), ""),
                        emailDetailID,
                        CallM("LogDeleted", m) \in F, CallM("LogDeletedFallback", m) \in F)
                ELSE log2
        made3 == made1
                 \cup (IF under THEN {} ELSE { CallM("AddSender", m) })
                 \cup (IF added
                       THEN LogCalls(CallM("LogAdded", m), CallM("LogAddedFallback", m),
                                     emailDetailID, F)
                       ELSE {})
                 \cup (IF queue
                       THEN LogCalls(CallM("LogDeleted", m), CallM("LogDeletedFallback", m),
                                     emailDetailID, F)
                       ELSE {})
    IN  IF SkipsEmail(senderEmail) THEN st
        ELSE IF ~AfterSnapshot(saved)
             THEN [st EXCEPT !.made = @ \cup { CallM("SaveEmailDetail", m) }]
        ELSE IF CallM("IsUnderPolicy", m) \in F
             THEN [st EXCEPT !.details = details1, !.made = made1]
        ELSE [rows |-> rows2, details |-> details1, log |-> log3,
              uids |-> IF queue THEN st.uids \cup {m} ELSE st.uids,
              failedAdds |-> IF ~under /\ addFailed THEN st.failedAdds \cup {m}
                             ELSE st.failedAdds,
              made |-> made3, now |-> st.now]

RECURSIVE ProcessEmails(_, _, _, _)
ProcessEmails(kind, emails, F, st) ==
    IF emails = << >> THEN st
    ELSE ProcessEmails(kind, Tail(emails), F, ProcessEmail(kind, Head(emails), F, st))

\* Client.FetchFullEmailsFromFolder: the emails returned when connect, select
\* and the fetch command succeed: those whose msg.Collect does not fail.
FetchFullEmailsFromFolder(box, F) ==
    Ascending({ m \in box : CallM("Collect", m) \notin F })

\* The calls FetchFullEmailsFromFolder makes on a folder holding box.
FetchCalls(box, F) ==
    { Call("connect") }
    \cup (IF Call("connect") \in F THEN {} ELSE { Call("select") })
    \cup (IF Call("connect") \in F \/ Call("select") \in F \/ box = {} THEN {}
          ELSE { Call("fetch") } \cup { CallM("Collect", m) : m \in box })

\* The calls an intake step can make on a folder holding the messages box.
IntakeCalls(box) ==
    { Call("connect"), Call("select"), Call("fetch"), Call("delete"), Call("expunge") }
    \cup { CallM(k, m) : k \in { "Collect", "SaveEmailDetail", "IsUnderPolicy", "AddSender",
                                 "LogAdded", "LogAddedFallback", "LogDeleted",
                                 "LogDeletedFallback" },
                         m \in box }

\* A step that reports a folder it cannot select.
IntakeErrorStrict(F, uids) ==
    IF Call("connect") \in F THEN "failed to connect"
    ELSE IF Call("select") \in F THEN "failed to select folder"
    ELSE IF Call("fetch") \in F THEN "fetch failed"
    ELSE IF uids # {} /\ (Call("delete") \in F \/ Call("expunge") \in F)
         THEN "failed to delete emails"
    ELSE "nil"

\* The error an intake step returns ("nil": none).  A failed select is
\* "Block folder not found or empty": the step returns nil.
IntakeError(F, uids) ==
    IF Call("connect") \in F THEN "failed to connect"
    ELSE IF Call("select") \in F THEN "nil"
    ELSE IF Call("fetch") \in F THEN "fetch failed"
    ELSE IF uids # {} /\ (Call("delete") \in F \/ Call("expunge") \in F)
         THEN "failed to delete emails"
    ELSE "nil"

\* EXPUNGE: the selected folder loses every message that carries \Deleted.
Expunge(box, flags) == box \ flags

\* Client.deleteEmailsFromFolder: [box, flags] after the call.  Call("delete")
\* is its connect, select and store, Call("expunge") its expunge.
deleteEmailsFromFolder(box, flags, uids, F) ==
    IF uids = {} \/ Call("delete") \in F THEN [box |-> box, flags |-> flags]
    ELSE IF Call("expunge") \in F THEN [box |-> box, flags |-> flags \cup (uids \cap box)]
    ELSE [box |-> Expunge(box, flags \cup uids), flags |-> flags \ box]

\* Result of an intake step: the loop's state, the emails fetched, the error
\* returned, and box and flags, the folder's content and the messages of the
\* mailbox that carry \Deleted after the step.  An error before the delete
\* leaves uids empty.
IntakeStep(kind, box, flags, rows, det, lg, now, F) ==
    LET fetchFailed == \E k \in { "connect", "select", "fetch" } : Call(k) \in F
        emails == IF fetchFailed THEN << >> ELSE FetchFullEmailsFromFolder(box, F)
        st == ProcessEmails(kind, emails, F,
                            [rows |-> rows, details |-> det, log |-> lg, uids |-> {},
                             failedAdds |-> {}, made |-> {}, now |-> now])
        err == IntakeError(F, st.uids)
        deleted == deleteEmailsFromFolder(box, flags, st.uids, F)
    IN  [rows |-> st.rows, details |-> st.details, log |-> st.log, uids |-> st.uids,
         fetched |-> Range(emails), failedAdds |-> st.failedAdds, err |-> err,
         made |-> FetchCalls(box, F) \cup st.made
                  \cup (IF st.uids # {} THEN { Call("delete") } ELSE {})
                  \cup (IF st.uids # {} /\ Call("delete") \notin F
                        THEN { Call("expunge") } ELSE {}),
         box |-> deleted.box, flags |-> deleted.flags]

(***************************************************************************)
(* Enforcement: Poller.deleteBlockedSenderEmails, Poller.filterMarketing-  *)
(* Emails, Client.ScanFoldersForSenders, Client.DeleteEmailsFromFolders.   *)
(***************************************************************************)
\* A poller that scans every folder of the listing.
NoFilter(allFolders) == allFolders

\* A poller that leaves out the two intake folders only.
RECURSIVE FilterIntakeOnly(_)
FilterIntakeOnly(allFolders) ==
    IF allFolders = << >> THEN << >>
    ELSE (IF Head(allFolders) \in { FolderBlock, FolderTransactionalOnly } THEN << >>
          ELSE <<Head(allFolders)>>)
         \o FilterIntakeOnly(Tail(allFolders))

\* The loop that keeps the folders of the listing that are not excluded.
RECURSIVE FilterExcluded(_)
FilterExcluded(allFolders) ==
    IF allFolders = << >> THEN << >>
    ELSE (IF Head(allFolders) \in excludedFolders THEN << >> ELSE <<Head(allFolders)>>)
         \o FilterExcluded(Tail(allFolders))

\* A scan that finds no email of the senders.
MatchesNothing(box, senderSet, F) == << >>

\* A scan that returns every email of the folder.
AllOfFolder(box, senderSet, F) == Ascending({ m \in box : CallM("Collect", m) \notin F })

\* The emails of one folder whose lower-cased From is in the sender set.
FolderMatches(box, senderSet, F) ==
    Ascending({ m \in box : /\ CallM("Collect", m) \notin F
                            /\ SenderOf[m] # ""
                            /\ SenderOf[m] \in senderSet })

\* A scan that ends at the first folder it cannot select.
StopAtFailedSelect(failed, rest) == IF failed THEN << >> ELSE rest

\* The folders the scan goes on with after the Select of a folder returned:
\* a failed Select is printed, and the loop continues.
AfterSelect(failed, rest) == rest

RECURSIVE ScanFoldersForSenders(_, _, _, _)
ScanFoldersForSenders(folders, senders, mbox, F) ==
    IF folders = << >> \/ senders = {} THEN << >>
    ELSE LET folder == Head(folders)
             senderSet == { LowerOf[a] : a \in senders }
             failed == CallF("scanSelect", folder) \in F
             folderEmails == IF failed THEN << >>
                             ELSE FolderMatches(mbox[folder], senderSet, F)
         IN  (IF folderEmails = << >> THEN << >>
              ELSE << [Folder |-> folder, Emails |-> folderEmails] >>)
             \o ScanFoldersForSenders(AfterSelect(failed, Tail(folders)), senders, mbox, F)

\* c.connect(): the number of sessions the call opens, one unless it fails.
\* The session is closed when the function that opened it returns.
Connect(F) == IF Call("connect") \in F THEN 0 ELSE 1

\* A batched delete that is issued on the session of the scan.
OnScanSession(F) == 0

\* DeleteEmailsFromFolders calls c.connect() itself: the sessions it opens.
DeleteSessions(F) == Connect(F)

\* Step 3, per matched email: the uid is queued and an EmailDeleted entry logged.
RECURSIVE LogBlockedEmails(_, _, _, _)
LogBlockedEmails(lg, folder, emails, F) ==
    IF emails = << >> THEN lg
    ELSE LogBlockedEmails(
            LogAction(lg,
                LogEntry(ActionDeletedEmail, SenderOf[Head(emails)], Head(emails),
                         "Auto-deleted email from blocked sender (folder: " \o folder \o ")",
                         folder, ""),
                CallM("LogAction", Head(emails)) \in F),
            folder, Tail(emails), F)

RECURSIVE CollectBlocked(_, _, _)
CollectBlocked(results, acc, F) ==
    IF results = << >> THEN acc
    ELSE LET result == Head(results)
         IN  CollectBlocked(Tail(results),
                [log |-> LogBlockedEmails(acc.log, result.Folder, result.Emails, F),
                 toDelete |-> [acc.toDelete EXCEPT ![result.Folder] = Range(result.Emails)]],
                F)

\* Step 4, per matched email: kept when the classification is transactional,
\* else queued with a MarketingEmailDeleted entry.  cls[m] is the
\* Classification that Classify returned for the email's subject.
\* A loop with the test inverted: it queues the transactional emails.
KeepsMarketing(classification) == classification.IsTransactional

\* The else branch: the email is queued when Classify did not find it transactional.
DeletesEmail(classification) == ~classification.IsTransactional

\* A log entry that leaves out the folder.
DetailsWithoutFolder(folder, reason) == "Deleted marketing email (reason: " \o reason \o ")"

MarketingDetails(folder, reason) ==
    "Deleted marketing email from folder " \o folder \o " (reason: " \o reason \o ")"

RECURSIVE LogMarketingEmails(_, _, _, _, _)
LogMarketingEmails(lg, folder, emails, cls, F) ==
    IF emails = << >> THEN lg
    ELSE LET email == Head(emails)
             lg1 == IF ~DeletesEmail(cls[email]) THEN lg
                    ELSE LogAction(lg,
                            LogEntry(ActionDeletedMarketing, SenderOf[email], email,
                                     MarketingDetails(folder, cls[email].Reason),
                                     folder, cls[email].Reason),
                            CallM("LogAction", email) \in F)
         IN  LogMarketingEmails(lg1, folder, Tail(emails), cls, F)

RECURSIVE CollectMarketing(_, _, _, _)
CollectMarketing(results, acc, cls, F) ==
    IF results = << >> THEN acc
    ELSE LET result == Head(results)
             uidsToDelete == { m \in Range(result.Emails) : DeletesEmail(cls[m]) }
         IN  CollectMarketing(Tail(results),
                [log |-> LogMarketingEmails(acc.log, result.Folder, result.Emails, cls, F),
                 toDelete |-> [acc.toDelete EXCEPT ![result.Folder] = uidsToDelete]],
                cls, F)

NoDeletions == [f \in Folders |-> {}]

\* The calls the scan half of an enforcement step can make.
ScanCalls(mbox) ==
    { Call("GetSenders"), Call("ListFolders"), Call("connect") }
    \cup { CallF("scanSelect", f) : f \in Folders \ excludedFolders }
    \cup { CallM(k, m) : k \in { "Collect", "LogAction" },
                         m \in UNION { mbox[f] : f \in Folders \ excludedFolders } }

\* Client.ListFolders returns the folders in any order: the lists the filter
\* loop can produce from a listing.
FilteredListings == { FilterExcluded(allFolders) : allFolders \in Orderings(Folders) }

\* The scan half of an enforcement step: [err, folders, log, toDelete, made,
\* matched]; matched are the emails the scan returned, which the step's loop
\* goes through.
\* step is 3 or 4, rows the sender table the step loads, folders the
\* filtered listing, cls the classifications Classify returned.
EnforcementScan(step, rows, folders, mbox, lg, cls, F) ==
    LET none == [err |-> "nil", folders |-> << >>, log |-> lg, toDelete |-> NoDeletions,
                 made |-> {}, matched |-> {}, unselected |-> {}, sessions |-> 0]
        results == ScanFoldersForSenders(folders, Addresses(rows), mbox, F)
        acc0 == [log |-> lg, toDelete |-> NoDeletions]
        acc == IF step = 3 THEN CollectBlocked(results, acc0, F)
               ELSE CollectMarketing(results, acc0, cls, F)
        selected == { f \in Range(folders) : CallF("scanSelect", f) \notin F }
        logged == { m \in UNION { Range(r.Emails) : r \in Range(results) } :
                      step = 3 \/ DeletesEmail(cls[m]) }
        early == { Call("GetSenders") } \cup (IF rows = {} THEN {} ELSE { Call("ListFolders") })
        scanned == early \cup { Call("connect") }
                   \cup { CallF("scanSelect", f) : f \in Range(folders) }
                   \cup { CallM("Collect", m) : m \in UNION { mbox[f] : f \in selected } }
                   \cup { CallM("LogAction", m) : m \in logged }
    IN  IF Call("GetSenders") \in F
        THEN [none EXCEPT !.err = "failed to get senders", !.made = early]
        ELSE IF rows = {} THEN [none EXCEPT !.made = early]
        ELSE IF Call("ListFolders") \in F
             THEN [none EXCEPT !.err = "failed to list folders", !.made = early]
        ELSE IF folders = << >> THEN [none EXCEPT !.made = early]
        ELSE IF Call("connect") \in F
             THEN [none EXCEPT !.err = "failed to scan folders", !.folders = folders,
                               !.made = early \cup { Call("connect") }]
        ELSE [err |-> "nil", folders |-> folders, log |-> acc.log,
              toDelete |-> acc.toDelete, made |-> scanned,
              matched |-> UNION { Range(r.Emails) : r \in Range(results) },
              unselected |-> Range(folders) \ selected, sessions |-> Connect(F)]

\* Client.DeleteEmailsFromFolders: per folder, select, mark \Deleted, expunge;
\* a folder whose select, store or expunge fails is skipped.  CallF("deleteIn", f)
\* is the select and the store in f, CallF("expunge", f) the expunge.
DeleteCalls(toDel) ==
    { Call("connect") }
    \cup { CallF(k, f) : k \in { "deleteIn", "expunge" }, f \in { g \in Folders : toDel[g] # {} } }

\* The calls of DeleteCalls that are made when those of F fail.
DeleteCallsMade(toDel, F) ==
    IF Call("connect") \in F THEN { Call("connect") }
    ELSE { c \in DeleteCalls(toDel) : c.kind = "expunge" => CallF("deleteIn", c.folder) \notin F }

\* [mailbox, flagged] after the call.
DeleteEmailsFromFolders(mbox, flags, toDel, F) ==
    LET stored == { f \in Folders : toDel[f] # {} /\ CallF("deleteIn", f) \notin F }
        flags1 == flags \cup UNION { toDel[f] \cap mbox[f] : f \in stored }
        expunged == { f \in stored : CallF("expunge", f) \notin F }
        mbox1 == [f \in Folders |->
                    IF f \in expunged THEN Expunge(mbox[f], flags1) ELSE mbox[f]]
    IN  IF Call("connect") \in F THEN [mailbox |-> mbox, flagged |-> flags]
        ELSE [mailbox |-> mbox1, flagged |-> flags1 \cap UNION { mbox1[f] : f \in Folders }]


(***************************************************************************)
(* State.                                                                  *)
(***************************************************************************)
VARIABLES
    pc,          \* where Poller.Start is: "start", a step of poll, "wait", "stopped";
                 \* "exited": the process has ended; "panicked": it has crashed
    tickerC,     \* ticker.C, a channel of capacity 1: "none" (no ticker yet), "empty", "tick"
    cancelled,   \* ctx.Done() is closed
    running,     \* number of calls of poll in progress
    cycles,      \* number of calls of poll so far
    started,     \* the steps started by the call of poll in progress, in order
    stepErr,     \* the error each step of that call returned
    mailbox,     \* folder -> the UIDs in it
    placed,      \* message -> the folder it appeared in ("": not yet)
    blocked,     \* table blocked_senders
    transOnly,   \* table transactional_only_senders
    details,     \* table email_details: the messages snapshotted, id = position
    log,         \* table action_log
    scanFolders, \* the folders handed to the last ScanFoldersForSenders of the cycle
    toDelete,    \* folder -> UIDs queued by the enforcement step in progress
    failures,    \* number of failed calls so far
    faultBudget, \* number of calls that may fail in this run
    intake,      \* the last intake step: kind, emails fetched, uids queued, failed calls
    lost,        \* [kind, msg]: AddSender failed for msg and the step's delete did not
    cycleStart,  \* mailbox, policies, failures and arrivals when the cycle started
    prev,        \* the same, when the cycle before started
    evals,       \* the calls of Classify made on its own: [subject, result]
    cycleBudget, \* number of poll cycles this run may start
    classified,  \* the messages step 4 of the cycle handed to Classify
    flagged,     \* the messages of the mailbox that carry the \Deleted flag
    requests,    \* the requests the dashboard handled: [kind, email, reason, existed,
                 \* failed, status]
    unselected,  \* the folders the last scan of the cycle could not select
    sessions,    \* the mail-store sessions steps 3 and 4 of the cycle opened so far
    cfg,         \* config.Load's result: the POLL_INTERVAL setting and PollInterval
    ticks        \* inCycle: ticks fired during the cycle in progress; before: during the
                 \* cycle before it; sinceTick: cycles the loop started since the last tick

vars == << pc, tickerC, cancelled, running, cycles, started, stepErr, mailbox, placed,
           blocked, transOnly, details, log, scanFolders, toDelete, failures, faultBudget,
           intake, lost, cycleStart, evals, cycleBudget, ticks,
           classified, flagged, requests, prev, unselected, sessions, cfg >>

\* The variables no step of the poller writes.
otherVars == << evals, cycleBudget, requests, cfg >>

Steps == 1..4
InCycle == pc \in { "s1", "s2", "s3", "s3del", "s4", "s4del", "end" }
NoErrors == [k \in Steps |-> "nil"]
NoSessions == [k \in { 3, 4 } |-> 0]
Arrived == { m \in Msgs : placed[m] # "" }

Snapshot ==
    [mailbox |-> mailbox, blocked |-> Addresses(blocked), transOnly |-> Addresses(transOnly),
     failures |-> failures, arrived |-> Arrived]

\* The history of a cycle, outside a cycle.
NoIntake == [kind |-> "", fetched |-> {}, queued |-> {}, faults |-> {}]
NoSnapshot ==
    [mailbox |-> [f \in Folders |-> {}], blocked |-> {}, transOnly |-> {},
     failures |-> 0, arrived |-> {}]

\* The state in which main calls Poller.Start, POLL_INTERVAL being `setting`.
InitLoaded(budget, cycleBound, rowsBlocked, rowsTransOnly, setting) ==
    /\ cfg = Loaded[setting]
    /\ pc = "start"
    /\ tickerC = "none"
    /\ cancelled = FALSE
    /\ running = 0
    /\ cycles = 0
    /\ started = << >>
    /\ stepErr = NoErrors
    /\ mailbox = [f \in Folders |-> {}]
    /\ placed = [m \in Msgs |-> ""]
    /\ blocked = rowsBlocked
    /\ transOnly = rowsTransOnly
    /\ details = << >>
    /\ log = << >>
    /\ scanFolders = << >>
    /\ toDelete = NoDeletions
    /\ failures = 0
    /\ faultBudget = budget
    /\ intake = NoIntake
    /\ lost = {}
    /\ cycleStart = NoSnapshot
    /\ evals = << >>
    /\ cycleBudget = cycleBound
    /\ ticks = [inCycle |-> 0, before |-> 0, sinceTick |-> 0]
    /\ classified = {}
    /\ flagged = {}
    /\ requests = << >>
    /\ prev = NoSnapshot
    /\ unselected = {}
    /\ sessions = NoSessions

\* POLL_INTERVAL is not set.
InitState(budget, cycleBound, rowsBlocked, rowsTransOnly) ==
    InitLoaded(budget, cycleBound, rowsBlocked, rowsTransOnly, "")

InitWith(budget) == InitState(budget, MaxCycles, {}, {})

Init == InitWith(MaxFailures)

\* The sets of calls that may fail in one step, within the failure budget
\* (a step takes a set F only if it makes every call of F).
Faults(calls) == SubsetsUpTo(calls, faultBudget - failures)

(***************************************************************************)
(* Poller.Start: the first poll, then the select loop.                     *)
(***************************************************************************)
\* A loop that takes ticks while a poll is in progress (go p.poll()).
AnyTime == pc \notin { "start", "stopped" }

\* The loop is at its select statement.
AtSelect == pc = "wait"

\* A loop that looks at the channel and leaves the tick in it.
Peek(c) == c

\* <-ticker.C: the channel after the loop received the tick.
Receive(c) == "empty"

\* cycleBudget bounds the calls of poll of a run; 0: no bound, and cycles
\* then stops counting at MaxCycles ("MaxCycles or more").
BeginPoll ==
    /\ cycleBudget = 0 \/ cycles < cycleBudget
    /\ cycles' = IF cycleBudget = 0 /\ cycles >= MaxCycles THEN cycles ELSE cycles + 1
    /\ running' = running + 1
    /\ pc' = "s1"
    /\ started' = << >>
    /\ stepErr' = NoErrors
    /\ scanFolders' = << >>
    /\ cycleStart' = Snapshot

\* p.poll() "immediately on start".
StartPoller ==
    /\ pc = "start"
    /\ BeginPoll
    /\ ticks' = [inCycle |-> 0, before |-> ticks.inCycle, sinceTick |-> ticks.sinceTick]
    /\ UNCHANGED << otherVars, unselected, sessions, prev, flagged, classified, faultBudget, tickerC, cancelled, mailbox, placed, blocked, transOnly, details, log,
                    toDelete, failures, intake, lost >>

\* case <-ticker.C: p.poll()
TickPoll ==
    /\ AtSelect
    /\ tickerC = "tick"
    /\ tickerC' = Receive(tickerC)
    /\ BeginPoll
    /\ ticks' = [inCycle |-> 0, before |-> ticks.inCycle, sinceTick |-> ticks.sinceTick + 1]
    /\ UNCHANGED << otherVars, unselected, sessions, prev, flagged, classified, faultBudget, cancelled, mailbox, placed, blocked, transOnly, details, log,
                    toDelete, failures, intake, lost >>

\* A context whose Done channel is never closed.
DoneNeverReady == FALSE

\* <-ctx.Done() is ready once cancel() was called.
DoneReady == cancelled

\* case <-ctx.Done(): return
Stop ==
    /\ AtSelect
    /\ DoneReady
    /\ pc' = "stopped"
    /\ tickerC' = "none"
    /\ UNCHANGED << otherVars, unselected, sessions, prev, flagged, classified, ticks, faultBudget, cancelled, running, cycles, started, stepErr, mailbox, placed, blocked,
                    transOnly, details, log, scanFolders, toDelete, failures, intake, lost,
                    cycleStart >>

\* time.NewTicker(d) panics unless d is positive.
NewTickerPanics(d) == ~Positive(d)

\* poll returns ("Poll complete"); after the first poll the ticker is created
\* with p.interval, and a panic of time.NewTicker ends the process.
\* The history of the cycle is dropped, but for the state it started in.
PollDone ==
    /\ pc = "end"
    /\ pc' = IF tickerC = "none" /\ NewTickerPanics(cfg.PollInterval) THEN "panicked"
             ELSE "wait"
    /\ running' = running - 1
    /\ tickerC' = IF tickerC = "none" /\ ~NewTickerPanics(cfg.PollInterval) THEN "empty"
                  ELSE tickerC
    /\ started' = << >>
    /\ stepErr' = NoErrors
    /\ scanFolders' = << >>
    /\ intake' = NoIntake
    /\ cycleStart' = NoSnapshot
    /\ classified' = {}
    /\ prev' = cycleStart
    /\ unselected' = {}
    /\ sessions' = NoSessions
    /\ UNCHANGED << otherVars, flagged, ticks, faultBudget, cancelled, cycles, mailbox, placed, blocked, transOnly, details, log,
                    toDelete, failures, lost >>

\* A poll that returns at the first step that fails.
AbortOnError(step, err) ==
    IF err # "nil" THEN "end"
    ELSE CASE step = 1 -> "s2" [] step = 2 -> "s3" [] step = 3 -> "s4" [] step = 4 -> "end"

\* A poll that runs step 4 before step 3.
FilterBeforeBlock(step, err) ==
    CASE step = 1 -> "s2"
      [] step = 2 -> "s4"
      [] step = 4 -> "s3"
      [] step = 3 -> "end"

\* The step poll goes to after a step returned err: errors are only logged.
AfterStep(step, err) ==
    CASE step = 1 -> "s2"
      [] step = 2 -> "s3"
      [] step = 3 -> "s4"
      [] step = 4 -> "end"


(***************************************************************************)
(* Poller.poll: the four steps.                                            *)
(***************************************************************************)
Rows(kind) == IF kind = KindBlock THEN blocked ELSE transOnly

\* Steps 1 and 2: processBlockFolder, processTransactionalOnlyFolder.
Intake(step, kind) ==
    /\ pc = (IF step = 1 THEN "s1" ELSE "s2")
    /\ \E F \in Faults(IntakeCalls(mailbox[IntakeFolder(kind)])) :
          \E r \in { IntakeStep(kind, mailbox[IntakeFolder(kind)], flagged, Rows(kind),
                                 details, log, cycles, F) } :
              /\ F \subseteq r.made
              /\ blocked' = IF kind = KindBlock THEN r.rows ELSE blocked
              /\ transOnly' = IF kind = KindTransactionalOnly THEN r.rows ELSE transOnly
              /\ details' = r.details
              /\ log' = r.log
              /\ mailbox' = [mailbox EXCEPT ![IntakeFolder(kind)] = r.box]
              /\ flagged' = r.flags
              /\ intake' = [kind |-> kind, fetched |-> r.fetched, queued |-> r.uids,
                            faults |-> F]
              /\ lost' = lost \cup { [kind |-> kind, msg |-> m] :
                                        m \in { x \in r.failedAdds : r.err = "nil" } }
              /\ failures' = failures + Cardinality(F)
              /\ started' = Append(started, step)
              /\ stepErr' = [stepErr EXCEPT ![step] = r.err]
              /\ pc' = AfterStep(step, r.err)
    /\ UNCHANGED << otherVars, unselected, sessions, prev, classified, ticks, faultBudget, tickerC, cancelled, running, cycles, placed, scanFolders, toDelete,
                    cycleStart >>

Step1 == Intake(1, KindBlock)
Step2 == Intake(2, KindTransactionalOnly)

\* The Classification values Classify can return for the messages of ms: one
\* call of Classify per message.
RECURSIVE Classifications(_)
Classifications(ms) ==
    IF ms = {} THEN { << >> }
    ELSE LET m == Min(ms)
         IN  { (m :> v) @@ c : v \in VerdictsOf[m], c \in Classifications(ms \ {m}) }

\* The messages step 4 can classify: those of the folders it can scan.
Scannable == UNION { mailbox[f] : f \in Folders \ excludedFolders }

\* A step that works on the sender addresses known when the cycle started.
StaleSenders(step) ==
    IF step = 3 THEN { r \in blocked : r.email \in cycleStart.blocked }
    ELSE { r \in transOnly : r.email \in cycleStart.transOnly }

\* The sender table an enforcement step loads when it starts.
StepSenders(step) == IF step = 3 THEN blocked ELSE transOnly

\* Steps 3 and 4 up to the call of DeleteEmailsFromFolders:
\* deleteBlockedSenderEmails, filterMarketingEmails.
Scan(step) ==
    /\ pc = (IF step = 3 THEN "s3" ELSE "s4")
    /\ \E F \in Faults(ScanCalls(mailbox)), folders \in FilteredListings,
          cls \in Classifications(IF step = 4 THEN Scannable ELSE {}) :
          \E r \in { EnforcementScan(step, StepSenders(step), folders, mailbox, log, cls, F) } :
              /\ F \subseteq r.made
              /\ log' = r.log
              /\ toDelete' = r.toDelete
              /\ scanFolders' = r.folders
              /\ classified' = IF step = 4 THEN r.matched ELSE classified
              /\ unselected' = r.unselected
              /\ sessions' = [sessions EXCEPT ![step] = r.sessions]
              /\ failures' = failures + Cardinality(F)
              /\ started' = Append(started, step)
              /\ stepErr' = [stepErr EXCEPT ![step] = r.err]
              /\ pc' = IF r.err = "nil" /\ r.toDelete # NoDeletions
                       THEN (IF step = 3 THEN "s3del" ELSE "s4del")
                       ELSE AfterStep(step, r.err)
    /\ UNCHANGED << otherVars, prev, flagged, ticks, faultBudget, tickerC, cancelled, running, cycles, mailbox, placed, blocked, transOnly,
                    details, intake, lost, cycleStart >>

\* The batched delete that ends steps 3 and 4.
Delete(step) ==
    /\ pc = (IF step = 3 THEN "s3del" ELSE "s4del")
    /\ \E F \in Faults(DeleteCalls(toDelete)) :
       \E r \in { DeleteEmailsFromFolders(mailbox, flagged, toDelete, F) } :
          /\ F \subseteq DeleteCallsMade(toDelete, F)
          /\ mailbox' = r.mailbox
          /\ flagged' = r.flagged
          /\ failures' = failures + Cardinality(F)
          /\ stepErr' = [stepErr EXCEPT ![step] =
                            IF Call("connect") \in F THEN "failed to delete emails" ELSE "nil"]
          /\ sessions' = [sessions EXCEPT ![step] = @ + DeleteSessions(F)]
          /\ pc' = AfterStep(step, stepErr'[step])
    /\ toDelete' = NoDeletions
    /\ UNCHANGED << otherVars, unselected, prev, classified, ticks, faultBudget, tickerC, cancelled, running, cycles, started, placed, blocked, transOnly,
                    details, log, scanFolders, intake, lost, cycleStart >>

Step3Scan == Scan(3)
Step3Delete == Delete(3)
Step4Scan == Scan(4)
Step4Delete == Delete(4)

(***************************************************************************)
(* The environment: the ticker, the shutdown signal, the mailbox's owner.  *)
(***************************************************************************)
\* The ticker fires; a tick that finds the channel full is dropped.
Tick ==
    /\ tickerC # "none"
    /\ tickerC' = "tick"
    /\ ticks' = [ticks EXCEPT !.inCycle = IF InCycle THEN Min({ @ + 1, MaxTicks }) ELSE @,
                              !.sinceTick = 0]
    /\ UNCHANGED << otherVars, unselected, sessions, prev, flagged, classified, faultBudget, pc, cancelled, running, cycles, started, stepErr, mailbox, placed,
                    blocked, transOnly, details, log, scanFolders, toDelete, failures,
                    intake, lost, cycleStart >>

\* main: cancel() after the web server returned an error; the process goes on.
Cancel ==
    /\ ~cancelled
    /\ cancelled' = TRUE
    /\ UNCHANGED << otherVars, unselected, sessions, prev, flagged, classified, ticks, faultBudget, pc, tickerC, running, cycles, started, stepErr, mailbox, placed,
                    blocked, transOnly, details, log, scanFolders, toDelete, failures,
                    intake, lost, cycleStart >>

\* main on SIGINT or SIGTERM: "Shutting down...", cancel(), "Goodbye!", and
\* main returns: the process ends, whatever the goroutine of Poller.Start is
\* doing (main does not wait for it).
Shutdown ==
    /\ pc # "exited"
    /\ cancelled' = TRUE
    /\ pc' = "exited"
    /\ running' = 0
    /\ UNCHANGED << otherVars, unselected, sessions, prev, flagged, classified, ticks, faultBudget, tickerC, cycles, started, stepErr, mailbox,
                    placed, blocked, transOnly, details, log, scanFolders, toDelete, failures,
                    intake, lost, cycleStart >>

\* A message of ms is delivered to, or moved by the user into, a folder of fs.
Deliver(ms, fs) ==
    /\ Cardinality(Arrived) < MaxArrivals
    /\ \E m \in ms \ Arrived, f \in fs :
          /\ placed' = [placed EXCEPT ![m] = f]
          /\ mailbox' = [mailbox EXCEPT ![f] = @ \cup {m}]
    /\ UNCHANGED << otherVars, unselected, sessions, prev, flagged, classified, ticks, faultBudget, pc, tickerC, cancelled, running, cycles, started, stepErr, blocked,
                    transOnly, details, log, scanFolders, toDelete, failures, intake, lost,
                    cycleStart >>

Arrive == Deliver(Msgs, Folders)

\* Another client of the mailbox marks a message as deleted without expunging.
Flag ==
    /\ Cardinality(flagged) < MaxFlags
    /\ \E m \in UNION { mailbox[f] : f \in Folders } \ flagged :
          flagged' = flagged \cup {m}
    /\ UNCHANGED << otherVars, unselected, sessions, prev, classified, ticks, faultBudget, pc, tickerC, cancelled, running,
                    cycles, started, stepErr, mailbox, placed, blocked, transOnly, details, log,
                    scanFolders, toDelete, failures, intake, lost, cycleStart >>

\* The ticker fires while the loop waits (a cycle shorter than the interval).
TickWhileWaiting == AtSelect /\ Tick

\* Mail that is in the mailbox before the service starts.
ArriveBeforeStart == pc = "start" /\ Arrive

Poll ==
    \/ StartPoller
    \/ TickPoll
    \/ PollDone
    \/ Step1
    \/ Step2
    \/ Step3Scan
    \/ Step3Delete
    \/ Step4Scan
    \/ Step4Delete

\* The poll cycle on a mailbox that changes while the service runs.
Next ==
    \/ Poll
    \/ TickWhileWaiting
    \/ Arrive

Spec == Init /\ [][Next]_vars

\* The poll cycle on a mailbox that changes between cycles only, with more
\* failing calls.
ArriveWhileIdle == pc \in { "start", "wait" } /\ Arrive

NextIdle ==
    \/ Poll
    \/ TickWhileWaiting
    \/ ArriveWhileIdle

SpecIdle == InitWith(MaxFailuresIdle) /\ [][NextIdle]_vars

\* The scheduler loop under any timing of ticks and of the shutdown signal.
NextSched ==
    \/ Poll
    \/ Stop
    \/ Tick
    \/ Cancel
    \/ Shutdown
    \/ ArriveBeforeStart

SpecSched == Init /\ [][NextSched]_vars

\* The classifier on its own: Classify is called on subjects of Subjects.
Evaluate ==
    /\ Len(evals) < MaxEvals
    /\ \E s \in Subjects : \E c \in SubjectVerdicts[s] :
          evals' = Append(evals, [subject |-> s, result |-> c])
    /\ UNCHANGED << cfg, unselected, sessions, cycleBudget, requests, prev, ticks, classified, flagged, faultBudget, pc, tickerC, cancelled, running, cycles, started, stepErr,
                    mailbox, placed, blocked, transOnly, details, log, scanFolders, toDelete,
                    failures, intake, lost, cycleStart >>

SpecClassify == Init /\ [][Evaluate]_vars

\* The poll cycle of a service that starts with a database in which the
\* dashboard has put a sender on both lists.  Mail arrives between
\* cycles.
StoredReason == "Manually added via web UI"
StoredSender == "newsletter@shop.com"
StoredRows == { [email |-> StoredSender, reason |-> StoredReason, msg |-> 0, created |-> 0] }

InitStored == InitState(MaxFailures, MaxCycles, StoredRows, StoredRows)

SpecStored == InitStored /\ [][NextIdle]_vars

\* The dashboard's form for a new sender: the address and reason fields.
FormEmails == { " Newsletter@Shop.com ", "" }
FormReasons == { "", "too many ads" }

\* strings.TrimSpace, for the blanks of the form values above.
RECURSIVE TrimLeft(_)
TrimLeft(s) == IF Len(s) > 0 /\ CharAt(s, 1) = " " THEN TrimLeft(SubSeq(s, 2, Len(s))) ELSE s
RECURSIVE TrimRight(_)
TrimRight(s) ==
    IF Len(s) > 0 /\ CharAt(s, Len(s)) = " " THEN TrimRight(SubSeq(s, 1, Len(s) - 1)) ELSE s
TrimSpace(s) == TrimRight(TrimLeft(s))

\* A handler that trims the form value and keeps its capitals.
FormEmailAsTyped == [e \in FormEmails |-> TrimSpace(e)]

\* strings.ToLower(strings.TrimSpace(r.FormValue("email")))
FormEmail == [e \in FormEmails |-> ToLower(TrimSpace(e))]

DashboardDetails(kind) ==
    IF kind = KindBlock THEN "Manually added via web UI"
    ELSE "Manually added via web UI - marketing emails will be deleted"

\* Server.handleAddBlocked / handleAddTransactional on a POST request.
HandleAdd(kind) ==
    /\ Len(requests) < MaxRequests
    /\ \E e \in FormEmails, formReason \in FormReasons,
          F \in Faults({ Call("AddSender"), Call("LogAction") }) :
          LET email == FormEmail[e]
              reason == IF formReason = "" THEN StoredReason ELSE formReason
              failed == Call("AddSender") \in F
              rows == IF email = "" \/ failed THEN Rows(kind)
                      ELSE AddSender(Rows(kind), email, reason, 0, cycles)
              entry == [action |-> IntakeAction(kind), sender |-> email, msg |-> 0,
                        subject |-> "", details |-> DashboardDetails(kind), folder |-> "",
                        reason |-> "", emailDetailID |-> 0]
              status == IF email = "" THEN 400 ELSE IF failed THEN 500 ELSE 303
          IN  /\ email = "" => F = {}
              /\ failed => F = { Call("AddSender") }
              /\ blocked' = IF kind = KindBlock THEN rows ELSE blocked
              /\ transOnly' = IF kind = KindTransactionalOnly THEN rows ELSE transOnly
              /\ log' = IF status = 303 THEN LogAction(log, entry, Call("LogAction") \in F)
                         ELSE log
              /\ failures' = failures + Cardinality(F)
              /\ requests' = Append(requests,
                                    [kind |-> kind, email |-> email, reason |-> reason,
                                     existed |-> IsUnderPolicy(Rows(kind), email),
                                     failed |-> failed, status |-> status])
    /\ UNCHANGED << cfg, unselected, sessions, evals, cycleBudget, prev, flagged, classified, ticks, faultBudget, pc, tickerC,
                    cancelled, running, cycles, started, stepErr, mailbox, placed, details,
                    scanFolders, toDelete, intake, lost, cycleStart >>

handleAddBlocked == HandleAdd(KindBlock)
handleAddTransactional == HandleAdd(KindTransactionalOnly)

\* Requests that reach the dashboard between two poll cycles.
AddBlockedWhileIdle == pc \in { "start", "wait" } /\ handleAddBlocked
AddTransactionalWhileIdle == pc \in { "start", "wait" } /\ handleAddTransactional

\* The poll cycle, without failing calls, next to a dashboard in use, on the
\* mail that is there when the service starts.
NextDashboard ==
    \/ Poll
    \/ TickWhileWaiting
    \/ ArriveBeforeStart
    \/ AddBlockedWhileIdle
    \/ AddTransactionalWhileIdle

SpecDashboard == InitState(0, MaxCycles, {}, {}) /\ [][NextDashboard]_vars

\* The service left running: the ticker keeps firing (time.NewTicker), every
\* step of a poll returns, a budget of calls fail, and mail is delivered
\* between the cycles: two messages of one sender, to an intake folder or to
\* a folder that steps 3 and 4 scan.
LiveMail == { 1, 2 }
LiveFolders == { FolderBlock, FolderTransactionalOnly, "INBOX" }
ArriveLive == pc \in { "start", "wait" } /\ Deliver(LiveMail, LiveFolders)

NextLive ==
    \/ Poll
    \/ TickWhileWaiting
    \/ ArriveLive

SpecLive ==
    /\ InitState(MaxFailures, 0, {}, {})
    /\ [][NextLive]_vars
    /\ WF_vars(Poll)
    /\ WF_vars(TickWhileWaiting)

\* The scheduler loop left running, under any timing of ticks and of
\* cancel(): every step of a poll returns, and the select, which chooses at
\* random among its ready cases, does not leave out the Done case forever.
NextStop ==
    \/ Poll
    \/ Stop
    \/ Tick
    \/ Cancel
    \/ ArriveLive

SpecStop ==
    /\ InitState(0, 0, {}, {})
    /\ [][NextStop]_vars
    /\ WF_vars(Poll)
    /\ SF_vars(Stop)

\* The service started under each value of POLL_INTERVAL.
InitConfig == \E setting \in Settings : InitLoaded(0, MaxCycles, {}, {}, setting)

NextConfig ==
    \/ Poll
    \/ TickWhileWaiting
    \/ ArriveBeforeStart

SpecConfig == InitConfig /\ [][NextConfig]_vars

\* An id that no row of the table has (a row's id is never used again).
NoRow == [email |-> "", reason |-> "", msg |-> 0, created |-> 0]

RemovalAction(kind) ==
    IF kind = KindBlock THEN ActionUnblockedSender ELSE ActionRemovedTransactionalOnly
RemovalDetails(kind) ==
    IF kind = KindBlock THEN "Removed from blocked list via web UI"
    ELSE "Removed from transactional-only list via web UI"

\* DELETE FROM ... WHERE id = ?
RemoveSender(rows, sender) == rows \ { sender }

\* Server.handleDeleteBlocked / handleDeleteTransactional on a POST request
\* with the id of the row sender, or with an id that no row has.
HandleDelete(kind) ==
    /\ Len(requests) < MaxRequests
    /\ \E sender \in Rows(kind) \cup { NoRow },
          F \in Faults({ Call("GetSenderByID"), Call("RemoveSender"), Call("LogAction") }) :
          LET found == sender \in Rows(kind)
              status == IF Call("GetSenderByID") \in F THEN 500
                        ELSE IF ~found THEN 404
                        ELSE IF Call("RemoveSender") \in F THEN 500
                        ELSE 303
              rows == IF status = 303 THEN RemoveSender(Rows(kind), sender) ELSE Rows(kind)
              entry == [action |-> RemovalAction(kind), sender |-> sender.email, msg |-> 0,
                        subject |-> "", details |-> RemovalDetails(kind), folder |-> "",
                        reason |-> "", emailDetailID |-> 0]
          IN  /\ Call("GetSenderByID") \in F => F = { Call("GetSenderByID") }
              /\ status = 404 => F = {}
              /\ status = 500 => Cardinality(F) = 1
              /\ blocked' = IF kind = KindBlock THEN rows ELSE blocked
              /\ transOnly' = IF kind = KindTransactionalOnly THEN rows ELSE transOnly
              /\ log' = IF status = 303 THEN LogAction(log, entry, Call("LogAction") \in F)
                         ELSE log
              /\ failures' = failures + Cardinality(F)
              /\ requests' = Append(requests,
                                    [kind |-> kind, email |-> sender.email, reason |-> "",
                                     existed |-> found, failed |-> status = 500,
                                     status |-> status])
    /\ UNCHANGED << cfg, unselected, sessions, evals, cycleBudget, prev, flagged, classified, ticks,
                    faultBudget, pc, tickerC, cancelled, running, cycles, started, stepErr,
                    mailbox, placed, details, scanFolders, toDelete, intake, lost, cycleStart >>

handleDeleteBlocked == HandleDelete(KindBlock)
handleDeleteTransactional == HandleDelete(KindTransactionalOnly)

\* The poll cycle, without failing calls, on the mail that is there when the
\* service starts, next to a dashboard on which policies are removed at any
\* time (the web server runs in a goroutine of its own).
NextRemoval ==
    \/ Poll
    \/ TickWhileWaiting
    \/ ArriveBeforeStart
    \/ handleDeleteBlocked
    \/ handleDeleteTransactional

SpecRemoval == InitState(0, MaxCycles, {}, {}) /\ [][NextRemoval]_vars

\* The poll cycle, without failing calls, on a mailbox that another client
\* works on as well.
NextShared ==
    \/ Poll
    \/ TickWhileWaiting
    \/ Arrive
    \/ Flag

SpecShared == InitState(0, MaxCycles, {}, {}) /\ [][NextShared]_vars

\* The scheduler loop over more cycles, without failing calls, under any
\* timing of ticks and of cancel().
NextTicks ==
    \/ Poll
    \/ Stop
    \/ Tick
    \/ Cancel
    \/ ArriveBeforeStart

SpecTicks == InitState(0, MaxCyclesTicks, {}, {}) /\ [][NextTicks]_vars


(***************************************************************************)
(* Properties.                                                             *)
(***************************************************************************)
Logged == Range(log)
IntakeFolders == { FolderBlock, FolderTransactionalOnly }
Kinds == { KindBlock, KindTransactionalOnly }

\* No call failed since the cycle started; no message appeared since then.
CleanCycle == failures = cycleStart.failures
QuietCycle == Arrived = cycleStart.arrived

\* Every Classification Classify can return for m's subject is transactional
\* (all of them carry the same verdict).
JudgedTransactional(m) == \A v \in VerdictsOf[m] : v.IsTransactional

\* C1: in a poll cycle the four steps start once each, in the order 1, 2, 3,
\* 4, whatever the earlier steps returned: the steps started so far are
\* always the steps before the one poll is at, and all four when poll ends.
C1_StepsInOrder ==
    /\ pc \in { "start", "wait", "stopped", "s1" } => started = << >>
    /\ pc = "s2" => started = << 1 >>
    /\ pc = "s3" => started = << 1, 2 >>
    /\ pc \in { "s3del", "s4" } => started = << 1, 2, 3 >>
    /\ pc \in { "s4del", "end" } => started = << 1, 2, 3, 4 >>

\* A cycle whose step 1 failed to connect has run all four steps.
C1_Witness ==
    /\ pc = "end"
    /\ stepErr[1] = "failed to connect"
    /\ started = << 1, 2, 3, 4 >>

\* C2: at most one call of poll is in progress, and one is in progress
\* exactly while the loop is inside a cycle, whenever the ticks fire.
C2_NoOverlap ==
    /\ running \in { 0, 1 }
    /\ running = 1 <=> InCycle

\* A tick fired while a cycle was running.
C2_Witness ==
    /\ running = 1
    /\ pc = "s3"
    /\ tickerC = "tick"
    /\ cycles > 1

\* What a cycle without failed calls leaves of an intake message with a
\* sender: the policy, the folder without the message, the EmailDeleted entry.
IntakeDone(kind, m) ==
    /\ SenderOf[m] \in Addresses(Rows(kind))
    /\ m \notin mailbox[IntakeFolder(kind)]
    /\ \E e \in Logged : /\ e.action = ActionDeletedEmail
                         /\ e.msg = m
                         /\ e.folder = IntakeFolder(kind)

PolicyLogged(kind, sender) ==
    \E e \in Logged : e.action = IntakeAction(kind) /\ e.sender = sender

\* C3 as stated: after a cycle without failed calls, every message with a
\* sender that was in an intake folder when the cycle started has left the
\* policy, the deletion, the EmailDeleted entry and a SenderBlocked
\* (SenderMarkedTransactionalOnly) entry for its sender.
C3_AsStated ==
    (pc = "end" /\ CleanCycle) =>
        \A kind \in Kinds : \A m \in cycleStart.mailbox[IntakeFolder(kind)] :
            SenderOf[m] # "" =>
                IntakeDone(kind, m) /\ PolicyLogged(kind, SenderOf[m])

\* C3, amended: the SenderBlocked (SenderMarkedTransactionalOnly) entry is
\* there when the sender had no policy of that kind when the cycle started.
C3_IntakeCycle ==
    (pc = "end" /\ CleanCycle) =>
        \A kind \in Kinds : \A m \in cycleStart.mailbox[IntakeFolder(kind)] :
            SenderOf[m] # "" =>
                /\ IntakeDone(kind, m)
                /\ SenderOf[m] \notin (IF kind = KindBlock THEN cycleStart.blocked
                                       ELSE cycleStart.transOnly)
                      => PolicyLogged(kind, SenderOf[m])

\* A clean cycle has processed a message with an upper-case From in each
\* intake folder, the senders new to both tables.
C3_Witness ==
    /\ pc = "end"
    /\ CleanCycle
    /\ \E m \in cycleStart.mailbox[FolderBlock] :
          Mail[m].From # SenderOf[m] /\ SenderOf[m] \notin cycleStart.blocked
    /\ \E m \in cycleStart.mailbox[FolderTransactionalOnly] :
          Mail[m].From # SenderOf[m] /\ SenderOf[m] \notin cycleStart.transOnly

\* C4: after a cycle without failed calls and without new mail, no folder
\* outside the excluded set holds a message whose lower-cased From is under
\* Block policy, the policies step 1 created in that cycle included.
C4_BlockedMailGone ==
    (pc = "end" /\ CleanCycle /\ QuietCycle) =>
        \A f \in Folders \ excludedFolders : \A m \in mailbox[f] :
            ~IsUnderPolicy(blocked, SenderOf[m])

\* Such a cycle created a Block policy in step 1 and removed mail of that
\* sender from a scanned folder in step 3.
C4_Witness ==
    /\ pc = "end"
    /\ CleanCycle
    /\ QuietCycle
    /\ \E m \in cycleStart.mailbox[FolderBlock], n \in cycleStart.mailbox["INBOX"] :
          /\ SenderOf[m] = SenderOf[n]
          /\ SenderOf[m] \notin cycleStart.blocked
          /\ IsUnderPolicy(blocked, SenderOf[m])
          /\ n \notin mailbox["INBOX"]

MarketingLogged(m, f) ==
    \E e \in Logged :
        /\ e.action = ActionDeletedMarketing
        /\ e.msg = m
        /\ e.reason \in { v.Reason : v \in VerdictsOf[m] }
        /\ Contains(e.details, e.reason)
        /\ Contains(e.details, f)

\* C5: after a cycle without failed calls, every message that was in a
\* folder outside the excluded set, whose sender is under TransactionalOnly
\* policy and whose subject is not judged transactional, is gone from its
\* folder; step 4 (the sender not being blocked, which leaves the message to
\* step 4) has logged a MarketingEmailDeleted entry whose details hold the
\* classifier's reason and the folder.
C5_MarketingDeleted ==
    (pc = "end" /\ CleanCycle) =>
        \A f \in Folders \ excludedFolders : \A m \in cycleStart.mailbox[f] :
            (IsUnderPolicy(transOnly, SenderOf[m]) /\ ~JudgedTransactional(m)) =>
                /\ m \notin mailbox[f]
                /\ ~IsUnderPolicy(blocked, SenderOf[m]) => MarketingLogged(m, f)

\* A clean cycle deleted "Flash Sale - 30% off" and logged it.
C5_Witness ==
    /\ pc = "end"
    /\ CleanCycle
    /\ \E f \in Folders \ excludedFolders : \E m \in cycleStart.mailbox[f] :
          /\ IsUnderPolicy(transOnly, SenderOf[m])
          /\ ~JudgedTransactional(m)
          /\ m \notin mailbox[f]
          /\ MarketingLogged(m, f)

C7_ScanExcludesFolders ==
    \A i \in DOMAIN scanFolders : scanFolders[i] \notin excludedFolders

\* A scan that got "drafts" before "INBOX" from a listing that holds "Drafts".
C7_Witness ==
    /\ scanFolders = << "drafts", "INBOX" >>
    /\ "Drafts" \in Folders
    /\ stepErr[3] = "nil"

\* C8 as stated: mail from a blocked sender in a folder named as an excluded
\* folder is never deleted and no log entry references that folder.
C8_AsStated ==
    \A m \in Arrived :
        (placed[m] \in excludedFolders /\ IsUnderPolicy(blocked, SenderOf[m])) =>
            /\ m \in mailbox[placed[m]]
            /\ \A e \in Logged : e.folder # placed[m]

\* C8, amended: this holds of the excluded folders other than the two intake
\* folders (the intake steps empty those and log it).
C8_ExcludedFolderKept ==
    \A m \in Arrived :
        ( /\ placed[m] \in excludedFolders \ IntakeFolders
          /\ IsUnderPolicy(blocked, SenderOf[m]) ) =>
            /\ m \in mailbox[placed[m]]
            /\ \A e \in Logged : e.folder # placed[m]

\* The second cycle's step 3 has scanned and deleted with mail from a blocked
\* sender in "Drafts".
C8_Witness ==
    /\ pc = "s4"
    /\ cycles = 2
    /\ \E m \in cycleStart.mailbox["Drafts"] :
          /\ SenderOf[m] \in cycleStart.blocked
          /\ stepErr[3] = "nil"
          /\ scanFolders # << >>

\* The EmailDeleted entry of an intake message is written unless its log
\* call (and, with a snapshot, the fallback call) failed.
DeletionLogFailed(m) ==
    /\ CallM("LogDeleted", m) \in intake.faults
    /\ \/ CallM("SaveEmailDetail", m) \in intake.faults
       \/ CallM("LogDeletedFallback", m) \in intake.faults

DeletionRecorded(m) ==
    /\ m \in intake.queued
    /\ ~DeletionLogFailed(m) =>
          \E e \in Logged : /\ e.action = ActionDeletedEmail
                            /\ e.msg = m
                            /\ e.folder = IntakeFolder(intake.kind)

\* C9 as stated: every fetched intake message with a sender is queued for
\* deletion and logged as EmailDeleted, whether or not the policy check and
\* the policy creation succeeded.
C9_AsStated ==
    \A m \in intake.fetched : SenderOf[m] # "" => DeletionRecorded(m)

\* C9, amended: this holds of the messages whose policy check returned, the
\* policy creation failing or not; a message whose check failed is skipped.
C9_QueuedAfterCheck ==
    \A m \in intake.fetched :
        /\ (SenderOf[m] # "" /\ CallM("IsUnderPolicy", m) \notin intake.faults)
              => DeletionRecorded(m)
        /\ (SenderOf[m] # "" /\ CallM("IsUnderPolicy", m) \in intake.faults)
              => m \notin intake.queued

\* An intake step queued a message whose AddSender call failed.
C9_Witness ==
    \E m \in intake.fetched :
        /\ CallM("AddSender", m) \in intake.faults
        /\ m \in intake.queued
        /\ \E e \in Logged : e.action = ActionDeletedEmail /\ e.msg = m

\* C10: a message whose AddSender call failed (the delete of its step not
\* failing) is gone from the intake folder, has no SenderBlocked
\* (SenderMarkedTransactionalOnly) entry, and no sender row was ever created
\* from it: a policy of its sender comes from another message.
C10_SignalLost ==
    \A l \in lost :
        /\ l.msg \notin mailbox[IntakeFolder(l.kind)]
        /\ \A e \in Logged : ~(e.action = IntakeAction(l.kind) /\ e.msg = l.msg)
        /\ \A r \in Rows(l.kind) : r.msg # l.msg

\* A later cycle has ended and the sender of such a message has no policy.
C10_Witness ==
    /\ pc = "end"
    /\ cycles = 2
    /\ \E l \in lost : /\ ~IsUnderPolicy(Rows(l.kind), SenderOf[l.msg])
                       /\ l.msg \notin cycleStart.mailbox[IntakeFolder(l.kind)]

\* C15: Classify is deterministic and case-insensitive: any two calls on
\* subjects that are equal up to letter case return the same verdict and the
\* same reason.
C15_AsStated ==
    \A i, j \in DOMAIN evals :
        LowerSubject[evals[i].subject] = LowerSubject[evals[j].subject]
            => evals[i].result = evals[j].result

\* C16: a subject that holds a key of the transactional table and a key of
\* the marketing table is classified transactional, with the reason of a
\* transactional rule.
C16_TransactionalFirst ==
    \A i \in DOMAIN evals :
        LET lower == LowerSubject[evals[i].subject]
        IN  (HasTransactionalKeyword(lower) /\ HasMarketingKeyword(lower)) =>
                /\ evals[i].result.IsTransactional
                /\ \E p \in transactionalPatterns : p[2] = evals[i].result.Reason

\* Classify was called on "Order Confirmation - 20% off your next order" and
\* on its upper-case form.
C16_Witness ==
    /\ Len(evals) = 2
    /\ evals[1].subject = "Order Confirmation - 20% off your next order"
    /\ evals[2].subject = "ORDER CONFIRMATION - 20% OFF YOUR NEXT ORDER"
    /\ HasMarketingKeyword(LowerSubject[evals[1].subject])
    /\ evals[1].result.IsTransactional
    /\ evals[2].result.IsTransactional

\* The messages whose subject holds no key of either table.
Unmatched ==
    { m \in Msgs : LET lower == ToLower(Mail[m].Subject)
                   IN  ~HasTransactionalKeyword(lower) /\ ~HasMarketingKeyword(lower) }

\* C17: every Classification of a subject that matches no keyword, the empty
\* subject included, is the default one, not transactional; after a cycle
\* without failed calls such a message of a TransactionalOnly sender that was
\* in a folder outside the excluded set is gone from it, logged as
\* MarketingEmailDeleted with the default reason (step 3 removes it first,
\* and logs EmailDeleted, when the sender is blocked too).
C17_DefaultDeleted ==
    /\ \A m \in Unmatched : \A v \in VerdictsOf[m] :
          ~v.IsTransactional /\ v.Reason = DefaultReason
    /\ (pc = "end" /\ CleanCycle) =>
          \A f \in Folders \ excludedFolders : \A m \in cycleStart.mailbox[f] \cap Unmatched :
              IsUnderPolicy(transOnly, SenderOf[m]) =>
                  /\ m \notin mailbox[f]
                  /\ ~IsUnderPolicy(blocked, SenderOf[m]) =>
                        \E e \in Logged : /\ e.action = ActionDeletedMarketing
                                           /\ e.msg = m
                                           /\ e.reason = DefaultReason

\* A clean cycle deleted the message with the empty subject from INBOX.
C17_Witness ==
    /\ pc = "end"
    /\ CleanCycle
    /\ \E m \in cycleStart.mailbox["INBOX"] \cap Unmatched :
          /\ Mail[m].Subject = ""
          /\ SenderOf[m] \in cycleStart.transOnly
          /\ m \notin mailbox["INBOX"]
          /\ \E e \in Logged : e.action = ActionDeletedMarketing /\ e.msg = m

\* C20: an intake step whose folder cannot be selected returns no error,
\* leaves both sender tables, the snapshots, the action log and the mailbox
\* as they were, queues nothing, and poll goes on with the next step.
C20_SelectFailureBenign ==
    [][ ( /\ pc \in { "s1", "s2" }
          /\ started' # started
          /\ Call("select") \in intake'.faults )
        => /\ stepErr'[IF pc = "s1" THEN 1 ELSE 2] = "nil"
           /\ blocked' = blocked
           /\ transOnly' = transOnly
           /\ details' = details
           /\ log' = log
           /\ mailbox' = mailbox
           /\ intake'.queued = {}
           /\ pc' = (IF pc = "s1" THEN "s2" ELSE "s3") ]_vars

\* Step 1 could not select the Block folder, which holds a message.
C20_Witness ==
    /\ pc = "s2"
    /\ intake.kind = KindBlock
    /\ Call("select") \in intake.faults
    /\ mailbox[FolderBlock] # {}
    /\ stepErr[1] = "nil"

\* C18: a cycle that is running when the cancellation signal is raised, or
\* has been raised, is not interrupted: its next step is a step of the same
\* cycle, up to the return of poll to the loop's wait point.
C18_AsStated ==
    [][ (InCycle /\ cancelled') => (InCycle' \/ pc' = "wait") ]_vars

\* C19: a cycle the loop starts takes exactly one tick out of the channel,
\* which is empty afterwards; however many ticks fired during a cycle, the
\* loop starts at most one cycle before another tick fires.
C19_TicksCoalesced ==
    /\ [](ticks.sinceTick <= 1)
    /\ [][ (pc = "wait" /\ pc' = "s1")
            => (tickerC = "tick" /\ tickerC' = "empty" /\ cycles' = cycles + 1) ]_vars

\* Two ticks fired during the second cycle, and the third cycle has started
\* from the one tick that was left of them.
C19_Witness ==
    /\ pc = "s1"
    /\ cycles = 3
    /\ ticks.before >= 2
    /\ ticks.sinceTick = 1
    /\ tickerC = "empty"

C13_AsStated ==
    [][ /\ (pc \in { "s1", "s2" } /\ started' # started) =>
              \A f \in Folders : mailbox[f] \ mailbox'[f] \subseteq intake'.queued
        /\ pc \in { "s3del", "s4del" } =>
              \A f \in Folders : mailbox[f] \ mailbox'[f] \subseteq toDelete[f] ]_vars

\* C12: a sender table holds one row per address; a row, once inserted,
\* stays as it is (reason and creation time), whoever adds the address
\* again; a dashboard request for an address that has a row is answered
\* with the redirect, not with an error, when the database call does not fail.
C12_AddIdempotent ==
    /\ [](\A kind \in Kinds : \A r1, r2 \in Rows(kind) : r1.email = r2.email => r1 = r2)
    /\ [][ /\ blocked \subseteq blocked'
           /\ transOnly \subseteq transOnly'
           /\ (requests' # requests /\ requests'[Len(requests')].existed
                 /\ ~requests'[Len(requests')].failed)
                 => requests'[Len(requests')].status = 303 ]_vars

\* The dashboard was asked to add, with another reason and in a later cycle,
\* an address whose row step 1 or 2 had created; the row is as step 1 or 2
\* made it.
C12_Witness ==
    /\ requests # << >>
    /\ LET q == requests[Len(requests)]
       IN  /\ q.existed
           /\ q.status = 303
           /\ \E r \in Rows(q.kind) :
                 /\ r.email = q.email
                 /\ r.msg # 0
                 /\ r.reason # q.reason
                 /\ r.created < cycles

\* The folders the enforcement steps scan.
ScannedFolders == UNION { Range(folders) : folders \in FilteredListings }

\* What one cycle without failed calls leaves of the state s (a cycleStart):
\* the addresses under each policy and the mailbox.
CleanBlocked(s) ==
    s.blocked \cup { SenderOf[m] : m \in { x \in s.mailbox[FolderBlock] : SenderOf[x] # "" } }

CleanTransOnly(s) ==
    s.transOnly
    \cup { SenderOf[m] : m \in { x \in s.mailbox[FolderTransactionalOnly] : SenderOf[x] # "" } }

CleanMailbox(s) ==
    [f \in Folders |->
        IF f \in IntakeFolders THEN { m \in s.mailbox[f] : SenderOf[m] = "" }
        ELSE IF f \in ScannedFolders
             THEN { m \in s.mailbox[f] :
                      /\ SenderOf[m] \notin CleanBlocked(s)
                      /\ SenderOf[m] \in CleanTransOnly(s) => JudgedTransactional(m) }
        ELSE s.mailbox[f]]

SameAsCleanCycle(s) ==
    /\ Addresses(blocked) = CleanBlocked(s)
    /\ Addresses(transOnly) = CleanTransOnly(s)
    /\ mailbox = CleanMailbox(s)

\* The second cycle has ended without a failed call, and no message has
\* appeared since the first one started.
RerunDone ==
    /\ pc = "end"
    /\ cycles = 2
    /\ CleanCycle
    /\ Arrived = prev.arrived

\* C11 as stated: the re-run leaves the policy sets and the mailbox as one
\* cycle without failed calls would have left them from the state the first
\* cycle started in.
C11_AsStated ==
    RerunDone => SameAsCleanCycle(prev)

\* C11, amended: it does when the first cycle deleted no intake message
\* whose policy write had failed.  (First conjunct: a cycle without failed
\* calls and new mail does leave what CleanBlocked, CleanTransOnly and
\* CleanMailbox say.)
C11_RerunSafe ==
    /\ (pc = "end" /\ CleanCycle /\ QuietCycle) => SameAsCleanCycle(cycleStart)
    /\ (RerunDone /\ lost = {}) => SameAsCleanCycle(prev)

\* The first cycle failed in two calls and left mail of a blocked sender
\* behind; the re-run has removed it.
C11_Witness ==
    /\ RerunDone
    /\ lost = {}
    /\ cycleStart.failures = prev.failures + 2
    /\ cycleStart.mailbox # CleanMailbox(prev)
    /\ \E m \in prev.mailbox["INBOX"] : SenderOf[m] \in CleanBlocked(prev)
    /\ SameAsCleanCycle(prev)

\* C21: an intake message whose snapshot could not be saved (no other call
\* of the step failing) has its sender under the policy, is queued and gone
\* from the intake folder, and has its EmailDeleted entry and, when the
\* policy was created from it, its SenderBlocked (SenderMarkedTransactional-
\* Only) entry, both without a snapshot reference.
C21_SnapshotNotNeeded ==
    \A m \in intake.fetched :
        (SenderOf[m] # "" /\ intake.faults = { CallM("SaveEmailDetail", m) }) =>
            /\ IsUnderPolicy(Rows(intake.kind), SenderOf[m])
            /\ m \in intake.queued
            /\ m \notin mailbox[IntakeFolder(intake.kind)]
            /\ m \notin Range(details)
            /\ \E e \in Logged : /\ e.action = ActionDeletedEmail
                                 /\ e.msg = m
                                 /\ e.folder = IntakeFolder(intake.kind)
                                 /\ e.emailDetailID = 0
            /\ \A r \in Rows(intake.kind) :
                  r.msg = m => \E e \in Logged : /\ e.action = IntakeAction(intake.kind)
                                                 /\ e.msg = m
                                                 /\ e.emailDetailID = 0

\* The snapshot of a Block intake message failed and the policy was created
\* from that message.
C21_Witness ==
    \E m \in intake.fetched :
        /\ intake.kind = KindBlock
        /\ intake.faults = { CallM("SaveEmailDetail", m) }
        /\ \E r \in blocked : r.msg = m
        /\ m \notin mailbox[FolderBlock]

PolicyEntries(kind, a) ==
    { i \in DOMAIN log : log[i].action = IntakeAction(kind) /\ log[i].sender = a }

\* C25: the log holds at most one SenderBlocked (SenderMarkedTransactional-
\* Only) entry per address, and that entry names the message the policy row
\* was created from, so it was appended when the address had no policy and
\* the creation succeeded; after an intake step without failed calls every
\* fetched message with a sender has its own EmailDeleted entry, and a sender
\* that had no policy when the cycle started has exactly one policy entry,
\* however many of the fetched messages are its own.
C25_OnePolicyEntry ==
    \A kind \in Kinds :
        /\ \A a \in { SenderOf[m] : m \in Msgs } :
              /\ Cardinality(PolicyEntries(kind, a)) <= 1
              /\ \A i \in PolicyEntries(kind, a) :
                    \E r \in Rows(kind) : r.email = a /\ r.msg = log[i].msg
        /\ (intake.kind = kind /\ intake.faults = {}) =>
              \A m \in intake.fetched :
                 SenderOf[m] # "" =>
                    /\ \E e \in Logged : /\ e.action = ActionDeletedEmail
                                         /\ e.msg = m
                                         /\ e.folder = IntakeFolder(kind)
                    /\ SenderOf[m] \notin (IF kind = KindBlock THEN cycleStart.blocked
                                           ELSE cycleStart.transOnly)
                          => Cardinality(PolicyEntries(kind, SenderOf[m])) = 1

\* Step 1 fetched two messages of one sender that had no Block policy, no
\* call failed, and the log holds one SenderBlocked entry for the sender and
\* an EmailDeleted entry for each of the two messages.
C25_Witness ==
    /\ intake.kind = KindBlock
    /\ intake.faults = {}
    /\ \E m, n \in intake.fetched :
          /\ m # n
          /\ SenderOf[m] = SenderOf[n]
          /\ SenderOf[m] \notin cycleStart.blocked
          /\ Cardinality(PolicyEntries(KindBlock, SenderOf[m])) = 1
          /\ \A x \in { m, n } :
                \E e \in Logged : e.action = ActionDeletedEmail /\ e.msg = x

\* The step whose batched delete is about to be issued (0: none).
DeletingStep == CASE pc = "s3del" -> 3 [] pc = "s4del" -> 4 [] OTHER -> 0

\* C26: when step 3 or 4 is about to issue its batched delete, every uid it
\* queued is queued under a folder outside the excluded set that holds the
\* message, and the message's lower-cased From is an address of the sender
\* table the step loaded; in a cycle without failed calls and new mail every
\* message of a scanned folder with such a From was returned by the scan,
\* whatever the case of its From header, and step 3 queued it.
C26_QueuedMatch ==
    DeletingStep # 0 =>
        /\ \A f \in Folders : \A m \in toDelete[f] :
              /\ f \notin excludedFolders
              /\ m \in mailbox[f]
              /\ SenderOf[m] # ""
              /\ SenderOf[m] \in Addresses(StepSenders(DeletingStep))
              /\ DeletingStep = 4 => m \in classified
        /\ (CleanCycle /\ QuietCycle) =>
              \A f \in Folders \ excludedFolders : \A m \in mailbox[f] :
                 (SenderOf[m] # "" /\ SenderOf[m] \in Addresses(StepSenders(DeletingStep))) =>
                    IF DeletingStep = 3 THEN m \in toDelete[f] ELSE m \in classified

\* Step 3 queued, under INBOX, a message whose From header is not lower-cased.
C26_Witness ==
    /\ pc = "s3del"
    /\ \E m \in toDelete["INBOX"] : Mail[m].From # SenderOf[m]

\* The rows of a sender table are kept as they are, and an address that has a
\* row gets no other one.
RowsKept(rows, rowsAfter) ==
    /\ rows \subseteq rowsAfter
    /\ \A r \in rowsAfter : r.email \in Addresses(rows) => r \in rows

\* C28: no step of the poller or of its environment removes or alters a row
\* of a sender table: every row is there after the step, with its reason, and
\* its address has no second row.
C28_RowsKept == [][RowsKept(blocked, blocked') /\ RowsKept(transOnly, transOnly')]_vars

\* Step 1 of a later cycle has fetched another message of a sender whose
\* Block row an earlier cycle created from another message.
C28_Witness ==
    /\ intake.kind = KindBlock
    /\ \E r \in blocked, m \in intake.fetched :
          /\ SenderOf[m] = r.email
          /\ r.msg # m
          /\ r.created < cycles
          /\ r.reason = IntakeReasonPrefix(KindBlock) \o Mail[r.msg].Subject

\* The addresses the poller and the dashboard are given, and what they make
\* of them; whether strings.ToLower leaves an address as it is.
GivenAddresses ==
    { Mail[m].From : m \in Msgs } \cup { SenderOf[m] : m \in Msgs }
    \cup FormEmails \cup { FormEmail[e] : e \in FormEmails }
LowerCased == [a \in GivenAddresses |-> a = ToLower(a)]

\* C29: every address of a sender table is lower-cased, and no two rows of a
\* table have the same address, whether step 1 or 2 or the dashboard
\* inserted them.
C29_AddressesCanonical ==
    \A kind \in Kinds : \A r \in Rows(kind) :
        /\ r.email \in GivenAddresses
        /\ LowerCased[r.email]
        /\ r.email # ""
        /\ \A q \in Rows(kind) : q.email = r.email => q = r

\* The Block table holds a row step 1 made from a From header with capitals
\* and a row the dashboard made from a form value with capitals and blanks.
C29_Witness ==
    /\ \E r \in blocked : r.msg # 0 /\ Mail[r.msg].From # r.email
    /\ \E r \in blocked, q \in Range(requests) :
          /\ r.msg = 0
          /\ q.kind = KindBlock
          /\ q.email = r.email
          /\ ~q.existed
          /\ \E e \in FormEmails : e # r.email /\ FormEmail[e] = r.email

\* The enforcement step that a step of the poller belongs to, and the place
\* poll goes to when that step returns.
EnforcementStep == IF pc \in { "s3", "s3del" } THEN 3 ELSE 4
StepReturns == IF EnforcementStep = 3 THEN "s4" ELSE "end"
ScanTaken == pc \in { "s3", "s4" } /\ started' # started
DeleteTaken == pc \in { "s3del", "s4del" } /\ toDelete' # toDelete

\* C23 as stated: once a folder of the scan cannot be selected, the step
\* issues no deletion.
C23_AsStated ==
    [][ (ScanTaken /\ unselected' # {}) => pc' \notin { "s3del", "s4del" } ]_vars

\* C23, amended: a scan or a batched delete that cannot connect ends its step
\* with an error, nothing deleted, and poll goes to the next step; a folder
\* the scan cannot select is skipped, the step returns no error for it, and
\* when no other call of the scan fails step 3 queues the messages of blocked
\* senders in the folders it could select.
C23_SelectFailureSkipsFolder ==
    [][ /\ (ScanTaken /\ stepErr'[EnforcementStep] # "nil") =>
              /\ toDelete' = NoDeletions
              /\ mailbox' = mailbox
              /\ pc' = StepReturns
        /\ (DeleteTaken /\ stepErr'[EnforcementStep] # "nil") =>
              /\ mailbox' = mailbox
              /\ pc' = StepReturns
        /\ (ScanTaken /\ unselected' # {}) =>
              /\ stepErr'[EnforcementStep] = "nil"
              /\ \A f \in unselected' : toDelete'[f] = {}
              /\ (EnforcementStep = 3 /\ failures' = failures + Cardinality(unselected')) =>
                    \A f \in Range(scanFolders') \ unselected' : \A m \in mailbox[f] :
                       (SenderOf[m] # "" /\ SenderOf[m] \in Addresses(blocked))
                          => m \in toDelete'[f] ]_vars

\* Step 3 could not select one folder of its scan and is about to delete the
\* mail of a blocked sender it found in another one.
C23_Witness ==
    /\ pc = "s3del"
    /\ unselected # {}
    /\ stepErr[3] = "nil"
    /\ \E f \in Folders \ unselected : toDelete[f] # {}

C30_AsStated ==
    [][ DeleteTaken =>
           \A f \in Folders : \A m \in mailbox[f] \ mailbox'[f] :
              SenderOf[m] \in Addresses(StepSenders(EnforcementStep)) ]_vars

\* The messages step 3 has to delete: those in a folder outside the excluded
\* set whose sender has a Block row.
BlockedMail ==
    { m \in Msgs : \E f \in Folders \ excludedFolders :
                      m \in mailbox[f] /\ SenderOf[m] \in Addresses(blocked) }

\* C22: with the ticker firing again and again, every step of poll returning
\* and calls failing a bounded number of times only, every message that is in
\* a folder outside the excluded set while its sender has a Block row leaves
\* that folder at some later time: at any time, there is a later time at
\* which no such message is left (no Block row is ever removed, and a
\* message that has left does not come back).
C22_BlockedMailEventuallyDeleted == []<>(BlockedMail = {})

\* A message of a blocked sender has left INBOX in a later cycle, after a call
\* had failed while it was there.
C22_Witness ==
    /\ cycles >= 2
    /\ pc = "s4"
    /\ stepErr[3] = "nil"
    /\ failures > 0
    /\ failures = cycleStart.failures
    /\ \E m \in cycleStart.mailbox["INBOX"] :
          /\ SenderOf[m] \in cycleStart.blocked
          /\ m \notin mailbox["INBOX"]

\* The actions of the log that record the deletion of a message.
DeletionActions == { ActionDeletedEmail, ActionDeletedMarketing }

\* C31 as stated: a message for which a step appended an EmailDeleted or a
\* MarketingEmailDeleted entry is not in the folder the entry names when the
\* step ends (steps 1 and 2 log and delete in one step of the model; steps 3
\* and 4 log the queued messages in the scan and end with the batched delete).
C31_AsStated ==
    [][ /\ (pc \in { "s1", "s2" } /\ started' # started) =>
              \A i \in (Len(log) + 1)..Len(log') :
                 log'[i].action \in DeletionActions
                    => log'[i].msg \notin mailbox'[log'[i].folder]
        /\ DeleteTaken =>
              \A f \in Folders : \A m \in toDelete[f] :
                 (\E e \in Logged : /\ e.action \in DeletionActions
                                    /\ e.msg = m
                                    /\ e.folder = f)
                    => m \notin mailbox'[f] ]_vars

\* C32 as stated: with the cancellation signal raised and the loop at its
\* select, the loop starts no poll cycle, whether a tick is pending or not.
C32_AsStated ==
    [][ (cancelled /\ AtSelect) => ~(pc' = "s1" /\ running' = running + 1) ]_vars

\* C33: once cancel() was called, the loop stops at some later time: Start
\* has returned and no poll is in progress.
C33_LoopStops == cancelled ~> (pc = "stopped" /\ running = 0)

\* Start has returned after a cycle that the loop started with the
\* cancellation signal raised (the third call of poll or a later one, the
\* signal raised before the second had ended).
C33_Witness ==
    /\ pc = "stopped"
    /\ running = 0
    /\ cancelled
    /\ cycles >= 2

\* C34 as stated: the verdict of every call Classify(s) is the answer of
\* IsTransactional(s) for the same subject.
C34_AsStated ==
    \A i \in 1..Len(evals) :
       evals[i].result.IsTransactional = SubjectTransactional[evals[i].subject]

\* Start has reached time.NewTicker(p.interval).
AtNewTicker == tickerC # "none" \/ pc = "panicked"

\* C35 as stated: whatever POLL_INTERVAL holds, the interval Start gives to
\* time.NewTicker is positive, and it is one minute when the setting is
\* unset or does not parse.
C35_AsStated ==
    /\ AtNewTicker => Positive(cfg.PollInterval)
    /\ (cfg.POLL_INTERVAL = "" \/ ParseDuration(cfg.POLL_INTERVAL).err)
          => cfg.PollInterval = Minute

\* No key of either table of Classify occurs in the subject of the i-th call.
NoRuleMatches(i) ==
    /\ ~HasTransactionalKeyword(LowerSubject[evals[i].subject])
    /\ ~HasMarketingKeyword(LowerSubject[evals[i].subject])

\* C36 as stated: a call of Classify on a subject that no rule matches
\* returns the reason "unclassified, defaulted to marketing".
C36_AsStated ==
    \A i \in 1..Len(evals) :
       NoRuleMatches(i) => evals[i].result.Reason = "unclassified, defaulted to marketing"

\* C36: a call of Classify on a subject that no rule matches returns the
\* reason "Unknown/Default to marketing", with the verdict not transactional.
C36_DefaultReason ==
    \A i \in 1..Len(evals) :
       NoRuleMatches(i) =>
          /\ evals[i].result.Reason = "Unknown/Default to marketing"
          /\ ~evals[i].result.IsTransactional

\* Classify was called on a subject without any keyword, and on the empty
\* subject.
C36_Witness ==
    /\ \E i \in 1..Len(evals) : evals[i].subject = "hello" /\ NoRuleMatches(i)
    /\ \E i \in 1..Len(evals) : evals[i].subject = "" /\ NoRuleMatches(i)

=========================================================================
